---- MODULE Spec2Model ----
(***************************************************************************)
(* Heart-rate ingestion pipeline of carda-challenge: the Bull queue's jobs, *)
(* the batch processor (VitalsService.processHeartRateBatch), the          *)
(* per-reading processor (VitalsService.processHeartRateReading), the      *)
(* Redis extrema cache (RedisRepository) and the heart_rate_aggregates and *)
(* heart_rate_records tables.                                              *)
(*                                                                         *)
(* Every await of the TypeScript code is one action: the code between two  *)
(* awaits runs atomically on the Node event loop, and the awaited Redis or *)
(* Postgres command takes effect atomically at the server.                 *)
(***************************************************************************)
EXTENDS Integers, Sequences, FiniteSets, Bags, TLC

(* ------------------------------ bounds --------------------------------- *)

\* Readings submitted in one behaviour.
MaxReadings == 3

\* Readings of one batch job.
MaxBatchLen == 2

\* Re-deliveries of an already processed job in one behaviour.
MaxReplays == 1

Patients == {1}

Days == {0, 1}

\* Sample heart rates, inside the validated domain [20, 300].
Bpms == {60, 70, 80}

\* Concurrent job slots of the queue: one per named processor.
Workers == {1, 2}

\* Timestamps are instants; a calendar day holds DayLen of them.
DayLen == MaxReadings + 1

(* --------------------------- pure functions ---------------------------- *)

\* new Date(timestamp).toISOString().split('T')[0]
DateOf(timestamp) == timestamp \div DayLen

\* `${reading.patientId}_${date}`, split again by key.split('_') and parseInt
KeyOf(reading) == <<reading.patientId, DateOf(reading.timestamp)>>

Keys == Patients \X Days

\* A field that a Redis hash does not hold (hgetall leaves it undefined).
NoVal == -1

\* The hash of a key that does not exist, and the null of getDailyMinMax.
NoEntry == [min |-> NoVal, max |-> NoVal, minTime |-> NoVal, maxTime |-> NoVal]

RECURSIVE KeysInOrder(_)
\* The keys of the Map readingsByPatientAndDate in insertion order.
KeysInOrder(readings) ==
  IF readings = <<>> THEN <<>>
  ELSE LET front == KeysInOrder(SubSeq(readings, 1, Len(readings) - 1))
           k == KeyOf(readings[Len(readings)])
       IN IF \E i \in 1..Len(front) : front[i] = k THEN front
          ELSE Append(front, k)

GroupOf(readings, k) == SelectSeq(readings, LAMBDA r : KeyOf(r) = k)

\* The groups of a batch, in the order the for-of loop visits them.
Partition(readings) ==
  LET ks == KeysInOrder(readings)
  IN [i \in 1..Len(ks) |-> GroupOf(readings, ks[i])]

RECURSIVE ScanExtrema(_, _, _)
ScanExtrema(readings, i, acc) ==
  IF i > Len(readings) THEN acc
  ELSE LET r == readings[i]
           a1 == IF r.bpm < acc.min
                 THEN [acc EXCEPT !.min = r.bpm, !.minTime = r.timestamp]
                 ELSE acc
           a2 == IF r.bpm > a1.max
                 THEN [a1 EXCEPT !.max = r.bpm, !.maxTime = r.timestamp]
                 ELSE a1
       IN ScanExtrema(readings, i + 1, a2)

\* A scan that keeps the first reading and never looks at the others.
LocalExtremaFirstOnly(readings) ==
  [min |-> readings[1].bpm, max |-> readings[1].bpm,
   minTime |-> readings[1].timestamp, maxTime |-> readings[1].timestamp]

\* A scan that would move to a later reading on a tie (<= and >=).
LocalExtremaLastTie(readings) ==
  LET idx == 1..Len(readings)
      lo == CHOOSE i \in idx : /\ \A j \in idx : readings[i].bpm <= readings[j].bpm
                               /\ \A j \in idx : readings[j].bpm = readings[i].bpm => j <= i
      hi == CHOOSE i \in idx : /\ \A j \in idx : readings[i].bpm >= readings[j].bpm
                               /\ \A j \in idx : readings[j].bpm = readings[i].bpm => j <= i
  IN [min |-> readings[lo].bpm, max |-> readings[hi].bpm,
      minTime |-> readings[lo].timestamp, maxTime |-> readings[hi].timestamp]

\* minBpm, maxBpm, minTime, maxTime of a non-empty group.
LocalExtrema(readings) ==
  ScanExtrema(readings, 1,
    [min |-> readings[1].bpm, max |-> readings[1].bpm,
     minTime |-> readings[1].timestamp, maxTime |-> readings[1].timestamp])

(* ------------------------------ the cache ------------------------------ *)

\* RedisRepository.getDailyMinMax: null unless the hash holds min and max.
GetDailyMinMax(c, k) ==
  IF c[k].min = NoVal \/ c[k].max = NoVal THEN NoEntry ELSE c[k]

\* RedisRepository.setDailyMinMax: one HSET of the four fields.
SetDailyMinMax(c, k, e) ==
  [c EXCEPT ![k] = [min |-> e.min, max |-> e.max,
                    minTime |-> e.minTime, maxTime |-> e.maxTime]]

\* RedisRepository.updateDailyMin: HSET of min and minTime only.
UpdateDailyMin(c, k, min, minTime) ==
  [c EXCEPT ![k].min = min, ![k].minTime = minTime]

\* RedisRepository.updateDailyMax: HSET of max and maxTime only.
UpdateDailyMax(c, k, max, maxTime) ==
  [c EXCEPT ![k].max = max, ![k].maxTime = maxTime]

(* --------------------------- reconciliation ---------------------------- *)

\* The synchronous part of updateDailyMinMaxCacheForBatch after its cache
\* read: the cache writes still to issue and the arguments of the upsert.
ReconcileBatch(current, readings) ==
  LET local == LocalExtrema(readings)
      isNewMin == local.min < current.min
      isNewMax == local.max > current.max
      final == [min |-> IF isNewMin THEN local.min ELSE current.min,
                max |-> IF isNewMax THEN local.max ELSE current.max,
                minTime |-> IF isNewMin THEN local.minTime ELSE current.minTime,
                maxTime |-> IF isNewMax THEN local.maxTime ELSE current.maxTime]
  IN [ops |-> IF current = NoEntry THEN << <<"set", local>> >>
              ELSE IF isNewMin \/ isNewMax THEN << <<"set", final>> >>
              ELSE <<>>,
      doUpsert |-> TRUE,
      upsert |-> local]

\* An updateDailyMinMaxCache that would return the reading's own values
\* for both ends whenever it improves one, and something when it improves
\* none.
ReconcileReadingOwn(current, reading) ==
  LET bpm == reading.bpm
      timestamp == reading.timestamp
      isNewMin == bpm < current.min
      isNewMax == bpm > current.max
      only == [min |-> bpm, max |-> bpm, minTime |-> timestamp, maxTime |-> timestamp]
  IN IF current = NoEntry
     THEN [ops |-> << <<"set", only>> >>, doUpsert |-> TRUE, upsert |-> only]
     ELSE [ops |-> (IF isNewMin THEN << <<"min", only>> >> ELSE <<>>)
                   \o (IF isNewMax THEN << <<"max", only>> >> ELSE <<>>),
           doUpsert |-> TRUE,
           upsert |-> only]

\* The synchronous part of updateDailyMinMaxCache after its cache read,
\* with the decision processHeartRateReading takes on its result.
ReconcileReading(current, reading) ==
  LET bpm == reading.bpm
      timestamp == reading.timestamp
      isNewMin == bpm < current.min
      isNewMax == bpm > current.max
      only == [min |-> bpm, max |-> bpm, minTime |-> timestamp, maxTime |-> timestamp]
  IN IF current = NoEntry
     THEN [ops |-> << <<"set", only>> >>, doUpsert |-> TRUE, upsert |-> only]
     ELSE IF ~isNewMin /\ ~isNewMax
     THEN [ops |-> <<>>, doUpsert |-> FALSE, upsert |-> NoEntry]
     ELSE [ops |-> (IF isNewMin THEN << <<"min", only>> >> ELSE <<>>)
                   \o (IF isNewMax THEN << <<"max", only>> >> ELSE <<>>),
           doUpsert |-> TRUE,
           upsert |-> [min |-> IF isNewMin THEN bpm ELSE current.min,
                       max |-> IF isNewMax THEN bpm ELSE current.max,
                       minTime |-> IF isNewMin THEN timestamp ELSE current.minTime,
                       maxTime |-> IF isNewMax THEN timestamp ELSE current.maxTime]]

(* ------------------------- heart_rate_aggregates ----------------------- *)

\* new Date(isoString): the instant the string names.
ToDate(timestamp) == timestamp

AggregateRow(k, e) ==
  [patientId |-> k[1], date |-> k[2],
   bpmMin |-> e.min, bpmMinRecordedAt |-> ToDate(e.minTime),
   bpmMax |-> e.max, bpmMaxRecordedAt |-> ToDate(e.maxTime)]

\* The select of upsertHeartRateAggregate and getExistingHeartRateAggregate.
RowsOf(rows, k) ==
  SelectSeq(rows, LAMBDA row : row.patientId = k[1] /\ row.date = k[2])

\* An update whose where clause would name the patient only.
UpdateRowsOfPatient(rows, k, e) ==
  [i \in 1..Len(rows) |->
     IF rows[i].patientId = k[1]
     THEN AggregateRow(k, e) ELSE rows[i]]

\* db.update(...).set(...).where(patientId, date): every matching row.
UpdateRows(rows, k, e) ==
  [i \in 1..Len(rows) |->
     IF rows[i].patientId = k[1] /\ rows[i].date = k[2]
     THEN AggregateRow(k, e) ELSE rows[i]]

\* db.insert(heartRateAggregates): the table has no unique constraint on
\* (patient_id, date), only a plain index.
InsertRow(rows, k, e) == Append(rows, AggregateRow(k, e))

(* ----------------------- QueueService: constants ---------------------- *)

\* Readings submitted to the accumulator in one behaviour.
MaxSubmits == 3

\* Readings submitted in one behaviour of the accumulator left to its timers.
MaxStream == 5

\* Steps of time in one behaviour.
MaxTicks == 5

\* Readings submitted in one burst: one more than the ceiling holds.
MaxFill == 1001

\* private batchSize = 200
DefaultBatchSize == 200

\* private readonly BATCH_FLUSH_INTERVAL = 2000 (ms)
BATCH_FLUSH_INTERVAL == 2000

\* private readonly MAX_BATCH_SIZE = 1000
MAX_BATCH_SIZE == 1000

\* setTimeout(..., 500) of addHeartRateJob (ms)
IdleFlushDelay == 500

\* Time advances in steps of the shorter of the two delays.
TickMs == IdleFlushDelay

\* batchTimeout === null
NoTimer == -1

\* The heart rates submitted to the accumulator, which never reads them.
SubmitBpms == {70}

\* The arguments updateBatchSize is called with.
NewSizes == {0, 1, 2, MAX_BATCH_SIZE, MAX_BATCH_SIZE + 1}

(* --------------------------- Bull: queueOptions ------------------------ *)

\* Jobs added to heartRateQueue in one behaviour of its bookkeeping.
MaxJobs == 51

\* The first MaxCompleted jobs are those whose processor may return.
MaxCompleted == 1

\* Calls of retryFailedJobs in one behaviour of the bookkeeping, and the
\* longest failed list it is called on.
MaxBulkRetries == 1
MaxRetried == 2

\* defaultJobOptions.attempts
Attempts == 3

\* defaultJobOptions.removeOnComplete
RemoveOnComplete == 100

\* defaultJobOptions.removeOnFail
RemoveOnFail == 50

\* No job is being processed.
NoJob == [id |-> 0, attemptsMade |-> 0]

\* new Queue('heart-rate-batch', queueOptions): no job in any list.
\*   added      jobs added so far; they are numbered 1..added
\*   waiting    the jobs waiting for a processor (or for their backoff delay)
\*   active     the job being processed, or NoJob
\*   failed     the failed list, oldest first
\*   completed  the completed list, oldest first
\*   exhausted  history: the jobs that failed their last attempt
\*   takenOut   history: the jobs an operation of QueueService took out of
\*              the failed list (retryFailedJobs)
\*   bulkRetries   the calls of retryFailedJobs so far
NewQueue ==
  [added |-> 0, waiting |-> <<>>, active |-> NoJob, failed |-> <<>>,
   completed |-> <<>>, exhausted |-> {}, takenOut |-> {}, bulkRetries |-> 0]

(* ------------------------------- failures ------------------------------ *)

\* Awaited calls that fail in one behaviour.
MaxFaults == 1

\*   count        the awaited calls that have failed so far
\*   cacheFailed  the partitions with a failed cache operation: the job slot,
\*                the job's readings, the partition's readings and the number
\*                of the attempt
\*   thrown       the attempts that ended in error, in order: the job's
\*                readings, the partitions whose bulk insert had been made
\*                and the partitions the attempt had not started
NoFaults == [count |-> 0, cacheFailed |-> {}, thrown |-> <<>>]

(* ---------------------------- cache expiry ----------------------------- *)

\* The time runs from 0 to MaxNow milliseconds.
MaxNow == 16

\* Cache entries that expire while jobs are processed, in one behaviour.
MaxExpiries == 1

\* A second of MsPerSec milliseconds, a day of SecPerDay seconds.
MsPerSec == 2
SecPerDay == 4
DayMs == SecPerDay * MsPerSec

\* The days cache entries are written for, and the offsets from UTC, in
\* seconds, of a server whose local time is not UTC.
EntryDays == {0, 1, 2}
TimeZones == {-1, 1}

\* The key does not exist.
NoExpire == -1

\*   now       the time (UTC, ms)
\*   tz        the offset of the server's local time
\*   expireAt  for each day, the time its entry expires
\*   written   history: the days an entry was written for
\*   atExpiry  history: for each cache entry that has expired while jobs
\*             were processed, its key and the rows of heart_rate_aggregates
\*             for that key at that moment
NoExpiry ==
  [now |-> 0, tz |-> 0, expireAt |-> [d \in EntryDays |-> NoExpire], written |-> {},
   atExpiry |-> <<>>]

\* getSecondsUntilEndOfNextDay: tomorrow.setDate(getDate() + 1) and
\* setHours(23, 59, 59, 999) work on the local calendar of `now`;
\* Math.ceil(diffMs / 1000).
GetSecondsUntilEndOfNextDay(now, tz) ==
  LET local == now + tz * MsPerSec
      tomorrow == ((local \div DayMs) + 1) * DayMs + DayMs - 1
  IN (tomorrow - local + MsPerSec - 1) \div MsPerSec

(* -------------------------------- state -------------------------------- *)

VARIABLES
  queue,        \* the waiting jobs of heartRateQueue, oldest first
  clock,        \* readings submitted so far
  replays,      \* jobs delivered a second time so far
  wk,           \* per job slot: the position of the processor running in it
  cache,        \* Redis: daily_min_max:<patientId>:<date> -> hash
  aggregates,   \* the rows of heart_rate_aggregates, in insertion order
  records,      \* the rows of heart_rate_records, as a bag of readings
  startedJobs,  \* history: the jobs a processor has been started on
  stats,        \* history: per job slot, its current or last partition, with
                \* the cache entry as its last cache write left it
  qs,           \* the accumulating QueueService: its fields, its two timers,
                \* the time and its heartRateQueue.add calls in flight
  qh,           \* history of the accumulator: submissions, flushes, outcomes
  bull,         \* the job lists Bull keeps for heartRateQueue, with its history
  faults,       \* history: the awaited calls that failed, and what followed
  ttl           \* the time, the server's time zone, and when each day's cache
                \* entry expires

vars == <<queue, clock, replays, wk, cache, aggregates, records, startedJobs, stats,
          qs, qh, bull, faults, ttl>>

IdleWorker ==
  [pc |-> "idle", kind |-> "batch", replay |-> FALSE, data |-> <<>>,
   groups |-> <<>>, ops |-> <<>>, doUpsert |-> FALSE, upsert |-> NoEntry,
   existing |-> FALSE]

NoStats ==
  [active |-> FALSE, read |-> FALSE, finished |-> FALSE, kind |-> "batch", replay |-> FALSE,
   key |-> <<0, 0>>, readings |-> <<>>, cur |-> NoEntry, rowsBefore |-> <<>>,
   cacheWrites |-> 0, lastWrite |-> NoEntry, upserts |-> 0]

\* new QueueService(): an empty buffer, the default threshold, no idle
\* timer, and the setInterval of setupBatchFlushTimer started at time 0.
\*   batchTimeout   the time the idle timer was set for, or NoTimer (null)
\*   idleArmed      the idle timer has neither run nor been cleared
\*   flushTimerDue  the next firing of the hard-flush interval
\*   adds           the heartRateQueue.add calls not yet settled, oldest first
NewQueueService ==
  [heartRateBatch |-> <<>>, batchSize |-> DefaultBatchSize,
   batchTimeout |-> NoTimer, idleArmed |-> FALSE,
   flushTimerDue |-> BATCH_FLUSH_INTERVAL, now |-> 0, adds |-> <<>>]

\*   submitted   the readings given to addHeartRateJob, in order
\*   handed      the batches given to heartRateQueue.add, in order
\*   idTaken     one of them was given the jobId `hr_batch_${Date.now()}` of
\*               the current millisecond
\*   appendedAt  for each buffered reading, the time it was submitted
\*   acked, rejected   addHeartRateJob calls that resolved, that rejected
\*   streak      addHeartRateJob calls since the buffer was empty with no other
\*               operation of the service in between (-1: there was one)
\*   streakFrom  the number of batches handed over when the streak began
\*   last        the last step of the service: the operation, the argument
\*               of updateBatchSize, and whether the call threw
NoHistory ==
  [submitted |-> <<>>, handed |-> <<>>, idTaken |-> FALSE, appendedAt |-> <<>>,
   acked |-> 0, rejected |-> 0, streak |-> 0, streakFrom |-> 0,
   last |-> [op |-> "new", arg |-> 0, threw |-> FALSE]]

Init ==
  /\ queue = <<>>
  /\ clock = 0
  /\ replays = 0
  /\ wk = [w \in Workers |-> IdleWorker]
  /\ cache = [k \in Keys |-> NoEntry]
  /\ aggregates = <<>>
  /\ records = EmptyBag
  /\ startedJobs = {}
  /\ stats = [w \in Workers |-> NoStats]
  /\ qs = NewQueueService
  /\ qh = NoHistory
  /\ bull = NewQueue
  /\ faults = NoFaults
  /\ ttl = NoExpiry

\* The readings a client submits next: any patient, day and heart rate, at
\* the next instants of the chosen day.
NewReadings(n) ==
  { [i \in 1..n |-> [patientId |-> f[i][1], bpm |-> f[i][3],
                     timestamp |-> f[i][2] * DayLen + clock + i - 1]] :
      f \in [1..n -> Patients \X Days \X Bpms] }

(* ------------------------------ the queue ------------------------------ *)

\* QueueService.addHeartRateBatchJob: heartRateQueue.add('heart-rate-batch').
EnqueueBatch ==
  \E n \in 1..MaxBatchLen :
    /\ clock + n <= MaxReadings
    /\ \E readings \in NewReadings(n) :
         queue' = Append(queue, [kind |-> "batch", data |-> readings, replay |-> FALSE])
    /\ clock' = clock + n
    /\ UNCHANGED <<replays, wk, cache, aggregates, records, startedJobs, stats, qs, qh, bull, faults, ttl>>

\* QueueService.addHeartRateJob of the per-reading queue service:
\* heartRateQueue.add('heart-rate-processing', data).
EnqueueReading ==
  /\ clock + 1 <= MaxReadings
  /\ \E readings \in NewReadings(1) :
       queue' = Append(queue, [kind |-> "single", data |-> readings, replay |-> FALSE])
  /\ clock' = clock + 1
  /\ UNCHANGED <<replays, wk, cache, aggregates, records, startedJobs, stats, qs, qh, bull, faults, ttl>>

InProgress(job) ==
  \E w \in Workers : wk[w].pc # "idle" /\ wk[w].kind = job.kind /\ wk[w].data = job.data

\* A processed batch job is delivered again (QueueService.retryFailedJobs,
\* job.retry()): the same readings reach processHeartRateBatch a second time.
Replay ==
  /\ replays < MaxReplays
  /\ \E job \in startedJobs :
       /\ job.kind = "batch"
       /\ ~InProgress(job)
       /\ \A i \in 1..Len(queue) : queue[i].data # job.data
       /\ queue' = Append(queue, [kind |-> "batch", data |-> job.data, replay |-> TRUE])
  /\ replays' = replays + 1
  /\ UNCHANGED <<clock, wk, cache, aggregates, records, startedJobs, stats, qs, qh, bull, faults, ttl>>

(* ---------------------------- the processors --------------------------- *)

\* A job slot takes the oldest waiting job and calls its processor:
\* processHeartRateBatch groups the readings; processHeartRateReading has one.
StartJob(w) ==
  /\ wk[w].pc = "idle"
  /\ queue # <<>>
  /\ LET job == Head(queue)
     IN /\ wk' = [wk EXCEPT ![w] =
                    [IdleWorker EXCEPT !.pc = "insert", !.kind = job.kind,
                       !.replay = job.replay, !.data = job.data,
                       !.groups = IF job.kind = "batch" THEN Partition(job.data)
                                  ELSE <<job.data>>]]
        /\ startedJobs' = startedJobs \cup {[kind |-> job.kind, data |-> job.data]}
  /\ queue' = Tail(queue)
  /\ UNCHANGED <<clock, replays, cache, aggregates, records, stats, qs, qh, bull, faults, ttl>>

\* What a processor does once a partition is through: the next group of the
\* batch, or the end of the job.
AfterPartition(worker) ==
  IF Len(worker.groups) > 1
  THEN [worker EXCEPT !.pc = "insert", !.groups = Tail(worker.groups),
                      !.ops = <<>>, !.doUpsert = FALSE, !.upsert = NoEntry,
                      !.existing = FALSE]
  ELSE IdleWorker

\* A bulk insert that would store only the first reading of its group.
InsertRecordsFirstOnly(w) ==
  /\ wk[w].pc = "insert"
  /\ LET group == Head(wk[w].groups)
     IN /\ records' = records (+) SetToBag({group[1]})
        /\ stats' = [stats EXCEPT ![w] =
                       [NoStats EXCEPT !.active = TRUE, !.kind = wk[w].kind,
                          !.replay = wk[w].replay, !.key = KeyOf(group[1]),
                          !.readings = group,
                          !.rowsBefore = RowsOf(aggregates, KeyOf(group[1]))]]
  /\ wk' = [wk EXCEPT ![w].pc = "get"]
  /\ UNCHANGED <<queue, clock, replays, cache, aggregates, startedJobs, qs, qh, bull, faults, ttl>>

\* A bulk insert that would leave out the readings heart_rate_records
\* already holds.
InsertRecordsNew(w) ==
  /\ wk[w].pc = "insert"
  /\ LET group == Head(wk[w].groups)
     IN /\ records' = records (+)
                          [r \in {group[i] : i \in {j \in 1..Len(group) :
                                                      ~BagIn(group[j], records)}} |->
                             Cardinality({i \in 1..Len(group) : group[i] = r})]
        /\ stats' = [stats EXCEPT ![w] =
                       [NoStats EXCEPT !.active = TRUE, !.kind = wk[w].kind,
                          !.replay = wk[w].replay, !.key = KeyOf(group[1]),
                          !.readings = group,
                          !.rowsBefore = RowsOf(aggregates, KeyOf(group[1]))]]
  /\ wk' = [wk EXCEPT ![w].pc = "get"]
  /\ UNCHANGED <<queue, clock, replays, cache, aggregates, startedJobs, qs, qh, bull, faults, ttl>>

\* await db.insert(heartRateRecords).values(...): the bulk insert of a
\* group, or the single insert of processHeartRateReading.
InsertRecords(w) ==
  /\ wk[w].pc = "insert"
  /\ LET group == Head(wk[w].groups)
     IN /\ records' = records (+) [r \in {group[i] : i \in 1..Len(group)} |->
                          Cardinality({i \in 1..Len(group) : group[i] = r})]
        /\ stats' = [stats EXCEPT ![w] =
                       [NoStats EXCEPT !.active = TRUE, !.kind = wk[w].kind,
                          !.replay = wk[w].replay, !.key = KeyOf(group[1]),
                          !.readings = group,
                          !.rowsBefore = RowsOf(aggregates, KeyOf(group[1]))]]
  /\ wk' = [wk EXCEPT ![w].pc = "get"]
  /\ UNCHANGED <<queue, clock, replays, cache, aggregates, startedJobs, qs, qh, bull, faults, ttl>>

\* await redisRepository.getDailyMinMax(patientId, date), and the code that
\* runs on its result up to the next await.
GetCache(w) ==
  /\ wk[w].pc = "get"
  /\ LET group == Head(wk[w].groups)
         current == GetDailyMinMax(cache, KeyOf(group[1]))
         plan == IF wk[w].kind = "batch" THEN ReconcileBatch(current, group)
                 ELSE ReconcileReading(current, group[1])
         planned == [wk[w] EXCEPT !.ops = plan.ops, !.doUpsert = plan.doUpsert,
                                  !.upsert = plan.upsert]
     IN /\ wk' = [wk EXCEPT ![w] =
                    IF plan.ops # <<>> THEN [planned EXCEPT !.pc = "cache"]
                    ELSE IF plan.doUpsert THEN [planned EXCEPT !.pc = "select"]
                    ELSE AfterPartition(planned)]
        /\ stats' = [stats EXCEPT ![w].cur = current, ![w].read = TRUE,
                                  ![w].finished = (plan.ops = <<>> /\ ~plan.doUpsert)]
  /\ UNCHANGED <<queue, clock, replays, cache, aggregates, records, startedJobs, qs, qh, bull, faults, ttl>>

\* The worker once the cache write at the head of its plan is done.
AfterCacheWrite(worker) ==
  IF Len(worker.ops) > 1 THEN [worker EXCEPT !.ops = Tail(worker.ops)]
  ELSE IF worker.doUpsert THEN [worker EXCEPT !.ops = <<>>, !.pc = "select"]
  ELSE AfterPartition(worker)

CacheWrite(w, op, newCache) ==
  /\ wk[w].pc = "cache"
  /\ Head(wk[w].ops)[1] = op
  /\ cache' = newCache
  /\ wk' = [wk EXCEPT ![w] = AfterCacheWrite(wk[w])]
  /\ stats' = [stats EXCEPT ![w].cacheWrites = @ + 1,
                            ![w].lastWrite = newCache[stats[w].key]]
  /\ UNCHANGED <<queue, clock, replays, aggregates, records, startedJobs, qs, qh, bull, faults, ttl>>

\* await redisRepository.setDailyMinMax(...)
SetCache(w) ==
  /\ wk[w].pc = "cache"
  /\ CacheWrite(w, "set",
       SetDailyMinMax(cache, KeyOf(Head(wk[w].groups)[1]), Head(wk[w].ops)[2]))

\* await redisRepository.updateDailyMin(...)
SetCacheMin(w) ==
  /\ wk[w].pc = "cache"
  /\ CacheWrite(w, "min",
       UpdateDailyMin(cache, KeyOf(Head(wk[w].groups)[1]),
                      Head(wk[w].ops)[2].min, Head(wk[w].ops)[2].minTime))

\* await redisRepository.updateDailyMax(...)
SetCacheMax(w) ==
  /\ wk[w].pc = "cache"
  /\ CacheWrite(w, "max",
       UpdateDailyMax(cache, KeyOf(Head(wk[w].groups)[1]),
                      Head(wk[w].ops)[2].max, Head(wk[w].ops)[2].maxTime))

\* upsertHeartRateAggregate: await db.select().from(heartRateAggregates)
SelectAggregate(w) ==
  /\ wk[w].pc = "select"
  /\ wk' = [wk EXCEPT ![w].pc = "write",
                      ![w].existing =
                         (Len(RowsOf(aggregates, KeyOf(Head(wk[w].groups)[1]))) > 0)]
  /\ UNCHANGED <<queue, clock, replays, cache, aggregates, records, startedJobs, stats, qs, qh, bull, faults, ttl>>

\* upsertHeartRateAggregate: await db.update(...) when the select found a
\* row, await db.insert(...) otherwise; then the partition is through.
WriteAggregate(w) ==
  /\ wk[w].pc = "write"
  /\ LET k == KeyOf(Head(wk[w].groups)[1])
     IN aggregates' = IF wk[w].existing
                      THEN UpdateRows(aggregates, k, wk[w].upsert)
                      ELSE InsertRow(aggregates, k, wk[w].upsert)
  /\ wk' = [wk EXCEPT ![w] = AfterPartition(wk[w])]
  /\ stats' = [stats EXCEPT ![w].upserts = @ + 1, ![w].finished = TRUE]
  /\ UNCHANGED <<queue, clock, replays, cache, records, startedJobs, qs, qh, bull, faults, ttl>>

Step(w) ==
  \/ StartJob(w)
  \/ InsertRecords(w)
  \/ GetCache(w)
  \/ SetCache(w)
  \/ SetCacheMin(w)
  \/ SetCacheMax(w)
  \/ SelectAggregate(w)
  \/ WriteAggregate(w)

\* The queue's two job slots run processors concurrently.
Next ==
  \/ EnqueueBatch
  \/ EnqueueReading
  \/ \E w \in Workers : Step(w)

Spec == Init /\ [][Next]_vars

\* One job at a time: no two processors overlap.
NextSeq ==
  \/ EnqueueBatch
  \/ EnqueueReading
  \/ Step(1)

SpecSeq == Init /\ [][NextSeq]_vars

\* One job at a time, and processed batch jobs may be delivered again.
NextReplay ==
  \/ EnqueueBatch
  \/ EnqueueReading
  \/ Replay
  \/ Step(1)

SpecReplay == Init /\ [][NextReplay]_vars

(* -------------------- QueueService: the accumulator -------------------- *)

\* An addHeartRateBatchJob that would give any list to the queue.
AddHeartRateBatchJobAlways(s, readings, caller) ==
  [s EXCEPT !.adds = Append(@, [readings |-> readings, caller |-> caller])]

\* addHeartRateBatchJob, up to its await: an empty list returns null, any
\* other list is given to heartRateQueue.add('heart-rate-batch', readings).
AddHeartRateBatchJob(s, readings, caller) ==
  IF Len(readings) = 0 THEN s
  ELSE [s EXCEPT !.adds = Append(@, [readings |-> readings, caller |-> caller])]

\* A flushHeartRateBatch that would leave the idle timer pending.
FlushHeartRateBatchNoClear(s, caller) ==
  IF Len(s.heartRateBatch) = 0 THEN s
  ELSE AddHeartRateBatchJob([s EXCEPT !.heartRateBatch = <<>>],
                            s.heartRateBatch, caller)

\* A flushHeartRateBatch that would hand the buffer over and leave it full.
FlushHeartRateBatchKeeping(s, caller) ==
  IF Len(s.heartRateBatch) = 0 THEN s
  ELSE AddHeartRateBatchJob(
         [s EXCEPT !.batchTimeout = NoTimer, !.idleArmed = FALSE],
         s.heartRateBatch, caller)

\* flushHeartRateBatch, up to its await: nothing on an empty buffer;
\* otherwise the buffer is taken and emptied, the idle timer cleared and
\* the taken batch given to addHeartRateBatchJob.
FlushHeartRateBatch(s, caller) ==
  IF Len(s.heartRateBatch) = 0 THEN s
  ELSE AddHeartRateBatchJob(
         [s EXCEPT !.heartRateBatch = <<>>, !.batchTimeout = NoTimer,
                   !.idleArmed = FALSE],
         s.heartRateBatch, caller)

\* An addHeartRateJob that would leave a pending idle timer as it is.
AddHeartRateJobSyncNoReset(s, data) ==
  LET pushed == [s EXCEPT !.heartRateBatch = Append(@, data)]
  IN IF Len(pushed.heartRateBatch) >= pushed.batchSize
     THEN FlushHeartRateBatch(pushed, "submit")
     ELSE IF s.idleArmed THEN pushed
     ELSE [pushed EXCEPT !.batchTimeout = s.now + IdleFlushDelay,
                         !.idleArmed = TRUE]

\* An addHeartRateJob that would flush only above the threshold.
AddHeartRateJobSyncAbove(s, data) ==
  LET pushed == [s EXCEPT !.heartRateBatch = Append(@, data)]
  IN IF Len(pushed.heartRateBatch) > pushed.batchSize
     THEN FlushHeartRateBatch(pushed, "submit")
     ELSE [pushed EXCEPT !.batchTimeout = s.now + IdleFlushDelay,
                         !.idleArmed = TRUE]

\* addHeartRateJob, up to its await: push, then flush at the threshold or
\* clear the idle timer and set it anew.
AddHeartRateJobSync(s, data) ==
  LET pushed == [s EXCEPT !.heartRateBatch = Append(@, data)]
  IN IF Len(pushed.heartRateBatch) >= pushed.batchSize
     THEN FlushHeartRateBatch(pushed, "submit")
     ELSE [pushed EXCEPT !.batchTimeout = s.now + IdleFlushDelay,
                         !.idleArmed = TRUE]

\* A range check that would test the ceiling only.
BatchSizeAboveCeiling(newSize) == newSize > MAX_BATCH_SIZE

\* The range check of updateBatchSize.
BatchSizeOutOfRange(newSize) == newSize < 1 \/ newSize > MAX_BATCH_SIZE

\* An updateBatchSize that would only set the threshold.
UpdateBatchSizeSyncNoFlush(s, newSize) ==
  IF BatchSizeOutOfRange(newSize) THEN s
  ELSE [s EXCEPT !.batchSize = newSize]

\* updateBatchSize, up to its await: throw, or set the threshold and flush
\* a buffer that has reached it.
UpdateBatchSizeSync(s, newSize) ==
  IF BatchSizeOutOfRange(newSize) THEN s
  ELSE LET u == [s EXCEPT !.batchSize = newSize]
       IN IF Len(u.heartRateBatch) >= u.batchSize
          THEN FlushHeartRateBatch(u, "update")
          ELSE u

\* A flushHeartRateBatch that would let a failed add escape.
FlushOutcomeRethrows(addFailed) == IF addFailed THEN "rejected" ELSE "resolved"

\* How flushHeartRateBatch ends once heartRateQueue.add has settled: its
\* try/catch logs a failed add and returns.
FlushOutcome(addFailed) == "resolved"

\* The history after a step op that took the service from s to t.
Observe(op, arg, threw, s, t) ==
  [qh EXCEPT
     !.handed = IF Len(t.adds) > Len(s.adds)
                THEN Append(@, t.adds[Len(t.adds)].readings) ELSE @,
     !.idTaken = IF op = "tick" THEN FALSE ELSE @ \/ Len(t.adds) > Len(s.adds),
     !.appendedAt = IF t.heartRateBatch = <<>> THEN <<>>
                    ELSE IF Len(t.heartRateBatch) > Len(s.heartRateBatch)
                    THEN Append(@, s.now) ELSE @,
     !.streak = IF op \in {"tick", "addSucceeds", "addFails"} THEN @ ELSE -1,
     !.last = [op |-> op, arg |-> arg, threw |-> threw]]

\* What the accumulator leaves alone: the processors and their stores.
pipelineVars == <<clock, replays, wk, cache, aggregates, records, startedJobs, stats,
                  bull, faults, ttl>>

\* The reading of a POST: any patient and heart rate, with a timestamp that
\* tells the submissions apart.
SubmitData ==
  { [patientId |-> p, bpm |-> b, timestamp |-> Len(qh.submitted)] :
      p \in Patients, b \in SubmitBpms }

\* addHeartRateJob(data). A call that flushed awaits heartRateQueue.add and
\* returns its acknowledgment afterwards; any other call returns it at once.
AddHeartRateJob(limit) ==
  /\ Len(qh.submitted) < limit
  /\ \E data \in SubmitData :
       LET t == AddHeartRateJobSync(qs, data)
           n == IF qs.heartRateBatch = <<>> THEN 0 ELSE qh.streak
       IN /\ qs' = t
          /\ qh' = [Observe("submit", 0, FALSE, qs, t) EXCEPT
                      !.submitted = Append(@, data),
                      !.acked = IF Len(t.adds) > Len(qs.adds) THEN @ ELSE @ + 1,
                      !.streak = IF n < 0 THEN -1 ELSE n + 1,
                      !.streakFrom = IF qs.heartRateBatch = <<>>
                                     THEN Len(qh.handed) ELSE @]
  /\ UNCHANGED <<queue, pipelineVars>>

\* The callback of the setTimeout of addHeartRateJob.
IdleTimerFires ==
  /\ qs.idleArmed
  /\ qs.batchTimeout <= qs.now
  /\ LET t == FlushHeartRateBatch([qs EXCEPT !.idleArmed = FALSE], "idle")
     IN qs' = t /\ qh' = Observe("idle", 0, FALSE, qs, t)
  /\ UNCHANGED <<queue, pipelineVars>>

\* An interval callback that would leave the flush to a pending idle timer.
FlushTimerDefers ==
  /\ qs.flushTimerDue <= qs.now
  /\ LET due == [qs EXCEPT !.flushTimerDue = @ + BATCH_FLUSH_INTERVAL]
         t == IF qs.idleArmed THEN due ELSE FlushHeartRateBatch(due, "hard")
     IN qs' = t /\ qh' = Observe("hard", 0, FALSE, qs, t)
  /\ UNCHANGED <<queue, pipelineVars>>

\* The callback of the setInterval of setupBatchFlushTimer.
FlushTimerFires ==
  /\ qs.flushTimerDue <= qs.now
  /\ LET t == FlushHeartRateBatch(
                [qs EXCEPT !.flushTimerDue = @ + BATCH_FLUSH_INTERVAL], "hard")
     IN qs' = t /\ qh' = Observe("hard", 0, FALSE, qs, t)
  /\ UNCHANGED <<queue, pipelineVars>>

\* forceFlushBatch()
ForceFlushBatch ==
  /\ LET t == FlushHeartRateBatch(qs, "force")
     IN qs' = t /\ qh' = Observe("force", 0, FALSE, qs, t)
  /\ UNCHANGED <<queue, pipelineVars>>

\* updateBatchSize(newSize)
UpdateBatchSize ==
  /\ \E newSize \in NewSizes :
       LET t == UpdateBatchSizeSync(qs, newSize)
       IN qs' = t /\ qh' = Observe("update", newSize, BatchSizeOutOfRange(newSize), qs, t)
  /\ UNCHANGED <<queue, pipelineVars>>

\* addHeartRateBatchJob([])
AddEmptyBatchJob ==
  /\ LET t == AddHeartRateBatchJob(qs, <<>>, "direct")
     IN qs' = t /\ qh' = Observe("addEmpty", 0, FALSE, qs, t)
  /\ UNCHANGED <<queue, pipelineVars>>

\* The history once the oldest add has settled: an addHeartRateJob call
\* that awaited it ends as its flushHeartRateBatch ended.
Settled(op, failed) ==
  LET t == [qs EXCEPT !.adds = Tail(@)]
      submit == Head(qs.adds).caller = "submit"
      resolved == FlushOutcome(failed) = "resolved"
  IN [Observe(op, 0, FALSE, qs, t) EXCEPT
        !.acked = IF submit /\ resolved THEN @ + 1 ELSE @,
        !.rejected = IF submit /\ ~resolved THEN @ + 1 ELSE @]

\* The oldest heartRateQueue.add resolves: its job waits in the queue.
AddSucceeds ==
  /\ qs.adds # <<>>
  /\ queue' = Append(queue, [kind |-> "batch", data |-> Head(qs.adds).readings,
                             replay |-> FALSE])
  /\ qs' = [qs EXCEPT !.adds = Tail(@)]
  /\ qh' = Settled("addSucceeds", FALSE)
  /\ UNCHANGED pipelineVars

\* The oldest heartRateQueue.add rejects (Redis unreachable): no job.
AddFails ==
  /\ qs.adds # <<>>
  /\ qs' = [qs EXCEPT !.adds = Tail(@)]
  /\ qh' = Settled("addFails", TRUE)
  /\ UNCHANGED <<queue, pipelineVars>>

\* Time passes. A timer that is due runs before time moves on.
Tick ==
  /\ qs.now < MaxTicks * TickMs
  /\ ~(qs.idleArmed /\ qs.batchTimeout <= qs.now)
  /\ ~(qs.flushTimerDue <= qs.now)
  /\ LET t == [qs EXCEPT !.now = @ + TickMs]
     IN qs' = t /\ qh' = Observe("tick", 0, FALSE, qs, t)
  /\ UNCHANGED <<queue, pipelineVars>>

\* The accumulating QueueService with its clients, its timers and the
\* queue's answers; no processor runs.
NextAcc ==
  \/ AddHeartRateJob(MaxSubmits)
  \/ IdleTimerFires
  \/ FlushTimerFires
  \/ ForceFlushBatch
  \/ UpdateBatchSize
  \/ AddEmptyBatchJob
  \/ AddSucceeds
  \/ AddFails
  \/ Tick

SpecAcc == Init /\ [][NextAcc]_vars

\* The accumulator under a longer stream of submissions, with nothing but
\* its timers and the queue's answers.
NextStream ==
  \/ AddHeartRateJob(MaxStream)
  \/ IdleTimerFires
  \/ FlushTimerFires
  \/ AddSucceeds
  \/ AddFails
  \/ Tick

SpecStream == Init /\ [][NextStream]_vars

\* updateBatchSize(MAX_BATCH_SIZE), called before the first submission.
RaiseBatchSize ==
  /\ qh.submitted = <<>>
  /\ qs.batchSize # MAX_BATCH_SIZE
  /\ LET t == UpdateBatchSizeSync(qs, MAX_BATCH_SIZE)
     IN qs' = t /\ qh' = Observe("update", MAX_BATCH_SIZE,
                                 BatchSizeOutOfRange(MAX_BATCH_SIZE), qs, t)
  /\ UNCHANGED <<queue, pipelineVars>>

\* The accumulator filled by a burst of submissions, at the default
\* threshold or at the ceiling.
NextFill ==
  \/ RaiseBatchSize
  \/ AddHeartRateJob(MaxFill)
  \/ AddSucceeds

SpecFill == Init /\ [][NextFill]_vars

(* ----------------------- failures while processing -------------------- *)

\* job.attemptsMade: the attempts of the job with these readings that have
\* ended in error.
AttemptsMade(f, data) ==
  Cardinality({i \in 1..Len(f.thrown) : f.thrown[i].data = data})

\* The cache operation the job slot is waiting for fails.
CacheFailure(w) ==
  [faults EXCEPT !.count = @ + 1,
                 !.cacheFailed = @ \cup {[w |-> w, data |-> wk[w].data,
                                          readings |-> Head(wk[w].groups),
                                          attempt |-> AttemptsMade(faults, wk[w].data)]}]

\* An awaited call of vitalsService.processHeartRateBatch rejects. Nothing
\* in its loop over the partitions catches, so the loop ends there;
\* processHeartRateBatch (the processor) logs and rethrows, and the queue
\* runs the job again while it has attempts left.
Throws(w, f) ==
  LET done == Len(Partition(wk[w].data)) - Len(wk[w].groups)
      thrown == [f EXCEPT !.thrown =
                   Append(@, [data |-> wk[w].data,
                              inserted |-> IF wk[w].pc = "insert" THEN done ELSE done + 1,
                              skipped |-> Len(wk[w].groups) - 1])]
  IN /\ faults' = thrown
     /\ wk' = [wk EXCEPT ![w] = IdleWorker]
     /\ queue' = IF AttemptsMade(thrown, wk[w].data) < Attempts
                 THEN Append(queue, [kind |-> wk[w].kind, data |-> wk[w].data,
                                     replay |-> TRUE])
                 ELSE queue

\* await db.insert(heartRateRecords) rejects.
InsertRecordsFails(w) ==
  /\ faults.count < MaxFaults
  /\ wk[w].pc = "insert"
  /\ Throws(w, [faults EXCEPT !.count = @ + 1])
  /\ UNCHANGED <<clock, replays, cache, aggregates, records, startedJobs, stats, qs, qh, bull, ttl>>

\* await redisRepository.getDailyMinMax rejects: this.redis.hgetall failed.
GetCacheFails(w) ==
  /\ faults.count < MaxFaults
  /\ wk[w].pc = "get"
  /\ Throws(w, CacheFailure(w))
  /\ UNCHANGED <<clock, replays, cache, aggregates, records, startedJobs, stats, qs, qh, bull, ttl>>

\* A cache write whose commands Redis answers with an error: the pipeline
\* stores nothing, `await pipeline.exec()` resolves with the errors in its
\* result, which setDailyMinMax does not read, and the processor goes on.
CacheWriteFails(w) ==
  /\ faults.count < MaxFaults
  /\ wk[w].pc = "cache"
  /\ faults' = CacheFailure(w)
  /\ wk' = [wk EXCEPT ![w] = AfterCacheWrite(wk[w])]
  /\ UNCHANGED <<queue, clock, replays, cache, aggregates, records, startedJobs, stats,
                 qs, qh, bull, ttl>>

\* Batch jobs one at a time, with awaited calls that fail.
NextFail ==
  \/ EnqueueBatch
  \/ StartJob(1)
  \/ InsertRecords(1)
  \/ InsertRecordsFails(1)
  \/ GetCache(1)
  \/ GetCacheFails(1)
  \/ SetCache(1)
  \/ CacheWriteFails(1)
  \/ SelectAggregate(1)
  \/ WriteAggregate(1)

SpecFail == Init /\ [][NextFail]_vars

(* --------------------------- expiry of entries ------------------------- *)

notTtl == <<queue, clock, replays, wk, cache, aggregates, records, startedJobs, stats,
            qs, qh, bull, faults>>

\* A cache write for an entry of day d: pipeline.expire(key, ttlSeconds)
\* with the ttlSeconds updateDailyMinMaxCacheForBatch took from
\* getSecondsUntilEndOfNextDay. Readings carry the timestamp their sender
\* gave them, so d is any day.
ExpireEntry ==
  \E d \in EntryDays :
    /\ ttl' = [ttl EXCEPT !.expireAt[d] =
                 ttl.now + GetSecondsUntilEndOfNextDay(ttl.now, ttl.tz) * MsPerSec,
                          !.written = @ \cup {d}]
    /\ UNCHANGED notTtl

\* A millisecond passes; entries whose time has come are removed.
TtlTick ==
  /\ ttl.now < MaxNow
  /\ ttl' = [ttl EXCEPT !.now = @ + 1,
                        !.expireAt = [d \in EntryDays |->
                                        IF ttl.expireAt[d] # NoExpire /\ ttl.expireAt[d] <= ttl.now + 1
                                        THEN NoExpire ELSE ttl.expireAt[d]]]
  /\ UNCHANGED notTtl

\* The server runs with a local time that is not UTC.
SetTimeZone ==
  /\ ttl = NoExpiry
  /\ \E tz \in TimeZones : ttl' = [ttl EXCEPT !.tz = tz]
  /\ UNCHANGED notTtl

NextTtl ==
  \/ SetTimeZone
  \/ ExpireEntry
  \/ TtlTick

SpecTtl == Init /\ [][NextTtl]_vars

(* ------------------- entries expiring under the jobs ------------------- *)

\* The TTL of a cache key runs out (pipeline.expire): Redis removes the key
\* with all its fields, whatever the processors are doing.
CacheExpires ==
  /\ Len(ttl.atExpiry) < MaxExpiries
  /\ \E k \in Keys :
       /\ cache[k] # NoEntry
       /\ cache' = [cache EXCEPT ![k] = NoEntry]
       /\ ttl' = [ttl EXCEPT !.atExpiry =
                    Append(@, [key |-> k, rows |-> RowsOf(aggregates, k)])]
  /\ UNCHANGED <<queue, clock, replays, wk, aggregates, records, startedJobs, stats,
                 qs, qh, bull, faults>>

\* Jobs one at a time, with cache entries that expire.
NextExpire ==
  \/ EnqueueBatch
  \/ EnqueueReading
  \/ Step(1)
  \/ CacheExpires

SpecExpire == Init /\ [][NextExpire]_vars

(* ------------------ the per-reading batch processor -------------------- *)

\* A batch for the per-reading batch processor, of as many readings as
\* there are slots to run processHeartRateReading in.
EnqueueBatchForEach ==
  \E n \in 1..MaxBatchLen :
    /\ n <= Cardinality(Workers)
    /\ clock + n <= MaxReadings
    /\ \E readings \in NewReadings(n) :
         queue' = Append(queue, [kind |-> "each", data |-> readings, replay |-> FALSE])
    /\ clock' = clock + n
    /\ UNCHANGED <<replays, wk, cache, aggregates, records, startedJobs, stats, qs, qh,
                   bull, faults, ttl>>

\* processHeartRateBatch with Promise.all(readings.map(reading =>
\* vitalsService.processHeartRateReading(reading))): one call per reading,
\* all started before any of them gets past its first await. The queue
\* hands over the next job when the promise of this one has settled.
StartAll ==
  /\ \A w \in Workers : wk[w].pc = "idle"
  /\ queue # <<>>
  /\ LET job == Head(queue)
     IN /\ job.kind = "each"
        /\ wk' = [w \in Workers |->
                    IF w <= Len(job.data)
                    THEN [IdleWorker EXCEPT !.pc = "insert", !.kind = "single",
                                            !.data = <<job.data[w]>>,
                                            !.groups = << <<job.data[w]>> >>]
                    ELSE IdleWorker]
        /\ startedJobs' = startedJobs \cup {[kind |-> job.kind, data |-> job.data]}
  /\ queue' = Tail(queue)
  /\ UNCHANGED <<clock, replays, cache, aggregates, records, stats, qs, qh, bull, faults, ttl>>

\* One of the concurrent processHeartRateReading calls goes on to its next
\* await.
StepEach(w) ==
  \/ InsertRecords(w)
  \/ GetCache(w)
  \/ SetCache(w)
  \/ SetCacheMin(w)
  \/ SetCacheMax(w)
  \/ SelectAggregate(w)
  \/ WriteAggregate(w)

NextAll ==
  \/ EnqueueBatchForEach
  \/ StartAll
  \/ \E w \in Workers : StepEach(w)

SpecAll == Init /\ [][NextAll]_vars

(* ---------------------- Bull: the lists of the queue ------------------- *)

notBull == <<queue, clock, replays, wk, cache, aggregates, records, startedJobs, stats,
             qs, qh, faults, ttl>>

\* removeOnComplete / removeOnFail given a number: the list keeps its
\* newest n jobs.
KeepLast(jobs, n) ==
  IF Len(jobs) > n THEN SubSeq(jobs, Len(jobs) - n + 1, Len(jobs)) ELSE jobs

\* heartRateQueue.add('heart-rate-batch', { readings }, ...), the jobs
\* arriving one after the other.
BullAdd ==
  /\ bull.added < MaxJobs
  /\ bull.waiting = <<>>
  /\ bull.active = NoJob
  /\ bull' = [bull EXCEPT !.added = @ + 1,
                          !.waiting = <<[id |-> bull.added + 1, attemptsMade |-> 0]>>]
  /\ UNCHANGED notBull

\* The queue hands the oldest waiting job to processHeartRateBatch.
BullStart ==
  /\ bull.active = NoJob
  /\ bull.waiting # <<>>
  /\ bull' = [bull EXCEPT !.active = Head(bull.waiting), !.waiting = Tail(bull.waiting)]
  /\ UNCHANGED notBull

\* processHeartRateBatch rethrows the error of vitalsService: the attempt
\* has failed. With attempts left the job waits for its backoff delay and
\* runs again; without, it goes to the failed list, trimmed to removeOnFail.
BullProcessorThrows ==
  /\ bull.active # NoJob
  /\ LET job == [bull.active EXCEPT !.attemptsMade = @ + 1]
     IN bull' = IF job.attemptsMade < Attempts
                THEN [bull EXCEPT !.active = NoJob, !.waiting = Append(@, job)]
                ELSE [bull EXCEPT !.active = NoJob,
                                  !.failed = KeepLast(Append(@, job), RemoveOnFail),
                                  !.exhausted = @ \cup {job.id},
                                  !.takenOut = @ \ {job.id}]
  /\ UNCHANGED notBull

\* processHeartRateBatch returns: the job goes to the completed list,
\* trimmed to removeOnComplete.
BullProcessorReturns ==
  /\ bull.active # NoJob
  /\ bull.active.id <= MaxCompleted
  /\ bull' = [bull EXCEPT !.active = NoJob,
                          !.completed = KeepLast(Append(@, bull.active), RemoveOnComplete)]
  /\ UNCHANGED notBull

\* QueueService.retryFailedJobs: job.retry() on every job of the failed
\* list, which puts it back among the waiting jobs.
RetryFailedJobs ==
  /\ bull.bulkRetries < MaxBulkRetries
  /\ bull.failed # <<>>
  /\ Len(bull.failed) <= MaxRetried
  /\ bull.active = NoJob
  /\ bull' = [bull EXCEPT !.waiting = @ \o bull.failed, !.failed = <<>>,
                          !.takenOut = @ \cup {bull.failed[i].id : i \in 1..Len(bull.failed)},
                          !.bulkRetries = @ + 1]
  /\ UNCHANGED notBull

\* QueueService.cleanOldJobs: heartRateQueue.clean(24h, 'completed') removes
\* the completed jobs older than a day, here any number of the oldest.
CleanOldJobs ==
  /\ bull.completed # <<>>
  /\ \E n \in 1..Len(bull.completed) :
       bull' = [bull EXCEPT !.completed = SubSeq(@, n + 1, Len(@))]
  /\ UNCHANGED notBull

NextBull ==
  \/ BullAdd
  \/ BullStart
  \/ BullProcessorThrows
  \/ BullProcessorReturns
  \/ RetryFailedJobs
  \/ CleanOldJobs

SpecBull == Init /\ [][NextBull]_vars

(* ------------------------------ properties ----------------------------- *)

\* The readings of (patientId, date) k that a processor has been started on.
StartedReadings(k) ==
  { r \in UNION { {job.data[i] : i \in 1..Len(job.data)} : job \in startedJobs } :
      KeyOf(r) = k }

SmallestBpm(readings) ==
  CHOOSE m \in {r.bpm : r \in readings} : \A r \in readings : m <= r.bpm

LargestBpm(readings) ==
  CHOOSE m \in {r.bpm : r \in readings} : \A r \in readings : m >= r.bpm

SetOf(seq) == {seq[i] : i \in 1..Len(seq)}

\* Every job handed to the queue has been processed to its end.
AllDone ==
  /\ queue = <<>>
  /\ \A w \in Workers : wk[w].pc = "idle"
  /\ startedJobs # {}

OnlyBatchJobs == \A job \in startedJobs : job.kind = "batch"

\* e records the smallest and the largest heart rate of readings, each with
\* the timestamp of a reading that carries it.
IsExtremaOf(e, readings) ==
  /\ e.min = SmallestBpm(readings)
  /\ e.max = LargestBpm(readings)
  /\ \E r \in readings : r.bpm = e.min /\ r.timestamp = e.minTime
  /\ \E r \in readings : r.bpm = e.max /\ r.timestamp = e.maxTime

RowEntry(row) ==
  [min |-> row.bpmMin, max |-> row.bpmMax,
   minTime |-> row.bpmMinRecordedAt, maxTime |-> row.bpmMaxRecordedAt]

\* C1: once all batches of a (patientId, date) have been processed one after
\* another, its Aggregate Row holds the smallest and the largest bpm among
\* all their readings, with timestamps of readings that carry those values.
C1_AggregateHoldsTrueExtrema ==
  (AllDone /\ OnlyBatchJobs) =>
    \A k \in Keys :
      StartedReadings(k) # {} =>
        /\ Len(RowsOf(aggregates, k)) = 1
        /\ IsExtremaOf(RowEntry(RowsOf(aggregates, k)[1]), StartedReadings(k))

\* A finished batch partition whose readings all lay inside [lo.min, lo.max].
WithinRange(s, lo) ==
  \A r \in SetOf(s.readings) : lo.min <= r.bpm /\ r.bpm <= lo.max

\* C2: a later batch whose readings all lie within the already recorded
\* [min, max] leaves the Aggregate Row as it was before that batch.
C2_LaterBatchInsideRangeKeepsRow ==
  \A w \in Workers :
    LET s == stats[w]
    IN (/\ s.finished /\ s.kind = "batch" /\ ~s.replay
        /\ s.cur # NoEntry /\ WithinRange(s, s.cur)
        /\ s.rowsBefore # <<>> /\ WithinRange(s, RowEntry(s.rowsBefore[1])))
       => RowsOf(aggregates, s.key) = s.rowsBefore

\* C3: what the batch processor upserts for a (patientId, date) is exactly
\* what that key's cache entry holds after the reconciliation step.
C3_UpsertEqualsCacheEntry ==
  \A w \in Workers :
    (wk[w].pc \in {"select", "write"} /\ wk[w].kind = "batch")
      => wk[w].upsert = cache[KeyOf(Head(wk[w].groups)[1])]

\* C4: a batch partition that improves neither the cached min nor the cached
\* max makes no cache write and no Aggregate Row upsert.
C4_NoImprovementNoWrite ==
  \A w \in Workers :
    LET s == stats[w]
    IN (/\ s.finished /\ s.kind = "batch"
        /\ s.cur # NoEntry /\ WithinRange(s, s.cur))
       => (s.cacheWrites = 0 /\ s.upserts = 0)

\* C5: processing again a batch whose readings are all reflected in the
\* cache entry and in the Aggregate Row changes neither of them.
C5_ReplayChangesNothing ==
  \A w \in Workers :
    LET s == stats[w]
    IN (/\ s.finished /\ s.kind = "batch" /\ s.replay
        /\ s.cur # NoEntry /\ WithinRange(s, s.cur)
        /\ s.rowsBefore # <<>> /\ WithinRange(s, RowEntry(s.rowsBefore[1])))
       => (/\ cache[s.key] = s.cur
           /\ RowsOf(aggregates, s.key) = s.rowsBefore)

\* C6: a batch partition that finds no cache entry creates the entry from
\* its own min and max with their timestamps and upserts the Aggregate Row
\* exactly once.
C6_FirstOfDaySeedsAndUpsertsOnce ==
  \A w \in Workers :
    LET s == stats[w]
    IN (s.read /\ s.kind = "batch" /\ s.cur = NoEntry)
       => /\ s.cacheWrites <= 1 /\ s.upserts <= 1
          /\ s.cacheWrites = 1 => IsExtremaOf(s.lastWrite, SetOf(s.readings))
          /\ s.finished => (s.cacheWrites = 1 /\ s.upserts = 1)

\* A two-reading first-of-day partition whose second reading is the lower
\* one and whose first is the higher one has been processed to its end.
C6_Witness ==
  \E w \in Workers :
    LET s == stats[w]
    IN /\ s.read /\ s.kind = "batch" /\ s.cur = NoEntry /\ s.finished
       /\ Len(s.readings) = 2
       /\ s.readings[2].bpm < s.readings[1].bpm

\* C7: after two batch jobs of one (patientId, date) have been reconciled,
\* in any interleaving, the cache entry holds the min and the max over the
\* readings of both.
C7_NoLostCacheUpdate ==
  (AllDone /\ OnlyBatchJobs) =>
    \A k \in Keys :
      StartedReadings(k) # {} =>
        /\ cache[k].min = SmallestBpm(StartedReadings(k))
        /\ cache[k].max = LargestBpm(StartedReadings(k))

\* C8: heart_rate_aggregates never holds two rows of one (patientId, date).
C8_OneRowPerPatientDate ==
  \A k \in Keys : Len(RowsOf(aggregates, k)) <= 1

\* C9: once every reading of a (patientId, date) has gone through its batch
\* job, the Aggregate Row equals the cache entry in min, max and timestamps.
C9_RowConvergesToCache ==
  (AllDone /\ OnlyBatchJobs) =>
    \A k \in Keys :
      cache[k] # NoEntry =>
        /\ RowsOf(aggregates, k) # <<>>
        /\ \A i \in 1..Len(RowsOf(aggregates, k)) :
             RowEntry(RowsOf(aggregates, k)[i]) = cache[k]

\* C10: every cache entry has min <= max, and its (min, minTime) and
\* (max, maxTime) are each the bpm and timestamp of a processed reading.
C10_CacheEntryWellFormed ==
  \A k \in Keys :
    cache[k] # NoEntry =>
      /\ cache[k].min <= cache[k].max
      /\ \E r \in StartedReadings(k) :
           r.bpm = cache[k].min /\ r.timestamp = cache[k].minTime
      /\ \E r \in StartedReadings(k) :
           r.bpm = cache[k].max /\ r.timestamp = cache[k].maxTime

\* The rows a bulk insert of group adds to heart_rate_records.
RowsOfGroup(group) ==
  [r \in SetOf(group) |-> Cardinality({i \in 1..Len(group) : group[i] = r})]

\* The readings of jobs whose processor has run to its end.
ProcessedReadings ==
  UNION { SetOf(job.data) : job \in {j \in startedJobs : ~InProgress(j)} }

\* heart_rate_records holds every reading of every processed job once.
AllProcessedRecorded ==
  \A r \in ProcessedReadings : CopiesIn(r, records) = 1

\* A step that changes heart_rate_records is one insert by a job slot of a
\* whole (patientId, date) partition of its job.
OneBulkInsertPerPartition ==
  records' # records =>
    \E w \in Workers :
      /\ wk[w].pc = "insert"
      /\ Head(wk[w].groups) = GroupOf(wk[w].data, KeyOf(Head(wk[w].groups)[1]))
      /\ records' = records (+) RowsOfGroup(Head(wk[w].groups))

\* C11: every reading of a processed batch is in heart_rate_records, whether
\* or not it changed the extrema, and the readings of one (patientId, date)
\* partition are inserted by one bulk insert.
C11_EveryReadingRecordedByOneBulkInsert ==
  []AllProcessedRecorded /\ [][OneBulkInsertPerPartition]_vars

\* A processed batch partition of two readings that wrote neither the cache
\* nor anything else after its insert, with both readings recorded.
C11_Witness ==
  \E w \in Workers :
    LET s == stats[w]
    IN /\ s.finished /\ s.kind = "batch" /\ wk[w].pc = "idle"
       /\ Len(s.readings) = 2
       /\ s.cur # NoEntry /\ WithinRange(s, s.cur)
       /\ \A r \in SetOf(s.readings) : CopiesIn(r, records) = 1

\* The last n elements of seq.
LastN(seq, n) == SubSeq(seq, Len(seq) - n + 1, Len(seq))

\* C12: batchSize consecutive addHeartRateJob calls that start on an empty
\* buffer, with no timer firing and no other operation in between, hand
\* exactly one batch to the queue, and it holds exactly those batchSize
\* readings in order; before the last of them nothing is handed over.
C12_ThresholdBurstMakesOneBatch ==
  qh.streak >= 0 =>
    /\ qh.streak <= qs.batchSize
    /\ IF qh.streak = qs.batchSize
       THEN /\ Len(qh.handed) = qh.streakFrom + 1
            /\ qh.handed[Len(qh.handed)] = LastN(qh.submitted, qs.batchSize)
            /\ qs.heartRateBatch = <<>>
       ELSE /\ Len(qh.handed) = qh.streakFrom
            /\ qs.heartRateBatch = LastN(qh.submitted, qh.streak)

\* A burst of batchSize = 2 readings has just been flushed as one batch.
C12_Witness ==
  /\ qs.batchSize = 2
  /\ qh.streak = 2
  /\ qh.last.op = "submit"
  /\ Len(qh.handed[Len(qh.handed)]) = 2

RECURSIVE Flatten(_)
\* The concatenation of the sequences of seqs.
Flatten(seqs) ==
  IF seqs = <<>> THEN <<>> ELSE Head(seqs) \o Flatten(Tail(seqs))

\* C13: whatever the interleaving of addHeartRateJob calls, idle-timer and
\* hard-flush-timer firings and updateBatchSize calls, the batches handed to
\* the queue, in flush order, followed by the buffer are the submitted
\* readings in submission order: none twice, none missing.
C13_BatchesAndBufferAreTheSubmissions ==
  Flatten(qh.handed) \o qs.heartRateBatch = qh.submitted

\* Two flushes, one by the idle timer and one by updateBatchSize, are in
\* flight and a later reading is buffered.
C13_Witness ==
  /\ Len(qs.adds) = 2
  /\ qs.adds[1].caller = "idle"
  /\ qs.adds[2].caller = "update"
  /\ qs.heartRateBatch # <<>>

\* The readings that can still reach the batch processor: buffered, in an
\* add that has not settled, or in a job waiting in the queue.
Retained ==
  SetOf(qs.heartRateBatch)
    \cup UNION { SetOf(qs.adds[i].readings) : i \in 1..Len(qs.adds) }
    \cup UNION { SetOf(queue[i].data) : i \in 1..Len(queue) }

\* C14: a batch whose heartRateQueue.add failed is not lost: every submitted
\* reading is still buffered, on its way to the queue, or in a queued job.
C14_FailedAddKeepsReadings ==
  SetOf(qh.submitted) \subseteq Retained

\* A buffer that holds readings is below the threshold and has its idle
\* timer pending, set for IdleFlushDelay after the last append.
IdleTimerFollowsLastAppend ==
  qs.heartRateBatch # <<>> =>
    /\ Len(qs.heartRateBatch) < qs.batchSize
    /\ qs.idleArmed
    /\ qs.batchTimeout = qh.appendedAt[Len(qh.appendedAt)] + IdleFlushDelay
    /\ qs.now <= qs.batchTimeout

\* The idle timer runs IdleFlushDelay after the last append and hands over
\* one batch: the readings submitted since the previous flush.
IdleTimerFlushesTheBuffer ==
  qh'.last.op = "idle" =>
    /\ qs.heartRateBatch # <<>>
    /\ qs.now = qh.appendedAt[Len(qh.appendedAt)] + IdleFlushDelay
    /\ qh'.handed =
         Append(qh.handed,
                SubSeq(qh.submitted, Len(Flatten(qh.handed)) + 1, Len(qh.submitted)))
    /\ qs'.heartRateBatch = <<>>

\* C15: fewer than batchSize readings followed by silence are flushed by
\* the idle timer, 500 ms after the last append, and the batch handed to
\* the queue holds exactly the readings submitted since the previous flush.
C15_IdleTimerFlushesWhatWasSubmitted ==
  []IdleTimerFollowsLastAppend /\ [][IdleTimerFlushesTheBuffer]_vars

\* The idle timer has just flushed two readings, after an earlier flush.
C15_Witness ==
  /\ qh.last.op = "idle"
  /\ Len(qh.handed) = 2
  /\ Len(qh.handed[2]) = 2
  /\ qs.batchSize > 2

\* C16: no reading is in the buffer more than the hard-flush interval (2 s)
\* after its submission, also when later submissions keep resetting the
\* idle timer: by then it has been handed to the queue.
C16_NoReadingBufferedBeyondInterval ==
  \A i \in 1..Len(qh.appendedAt) :
    qs.now - qh.appendedAt[i] <= BATCH_FLUSH_INTERVAL

\* Submissions every 500 ms kept the idle timer from running, and the
\* hard-flush timer has handed over the reading that waited 2 s with the rest.
C16_Witness ==
  /\ qh.last.op = "hard"
  /\ qs.now = BATCH_FLUSH_INTERVAL
  /\ Len(qh.handed) = 1
  /\ Len(qh.handed[1]) = MaxStream
  /\ qs.heartRateBatch = <<>>

\* No reading is in two of the batches handed to the queue.
NoReadingFlushedTwice ==
  \A i, j \in 1..Len(qh.handed) :
    i < j => SetOf(qh.handed[i]) \cap SetOf(qh.handed[j]) = {}

\* Right after the hard-flush timer ran, no idle timer is pending and the
\* buffer is empty.
HardFlushCancelsIdleTimer ==
  qh.last.op = "hard" =>
    /\ ~qs.idleArmed
    /\ qs.batchTimeout = NoTimer
    /\ qs.heartRateBatch = <<>>

\* C17 as stated: whichever timer fires and flushes, the other one is
\* cancelled or reset (the hard-flush timer would start a new interval at
\* the idle flush), and no buffer contents are flushed twice.
C17_FiringOneTimerResetsTheOther ==
  /\ HardFlushCancelsIdleTimer
  /\ qh.last.op = "idle" => qs.flushTimerDue = qs.now + BATCH_FLUSH_INTERVAL
  /\ NoReadingFlushedTwice

\* C17, amended: the hard-flush timer cancels the pending idle timer when
\* it flushes; the idle timer empties the buffer and leaves the hard-flush
\* timer on its schedule of one firing every BATCH_FLUSH_INTERVAL since
\* construction; no buffer contents are flushed twice.
C17_TimersNeverFlushTwice ==
  /\ HardFlushCancelsIdleTimer
  /\ qh.last.op = "idle" => (qs.heartRateBatch = <<>> /\ ~qs.idleArmed)
  /\ qs.flushTimerDue % BATCH_FLUSH_INTERVAL = 0
  /\ qs.now <= qs.flushTimerDue
  /\ qs.flushTimerDue - qs.now <= BATCH_FLUSH_INTERVAL
  /\ NoReadingFlushedTwice

\* The idle timer flushed one batch, and the hard-flush timer has just
\* flushed the next one while an idle timer was pending.
C17_Witness ==
  /\ qh.last.op = "hard"
  /\ Len(qs.adds) = 2
  /\ qs.adds[1].caller = "idle"
  /\ qs.adds[2].caller = "hard"

\* A flush that finds the buffer empty, and addHeartRateBatchJob([]), call
\* heartRateQueue.add for nothing and leave the buffer as it was.
EmptyFlushAddsNothing ==
  (\/ qh'.last.op = "addEmpty"
   \/ qh'.last.op \in {"idle", "hard", "force"} /\ qs.heartRateBatch = <<>>)
    => /\ qs'.adds = qs.adds
       /\ qh'.handed = qh.handed
       /\ qs'.heartRateBatch = qs.heartRateBatch

\* C18: a flush of an empty buffer enqueues no job, and addHeartRateBatchJob
\* with an empty list never calls the queue's add: no batch handed to the
\* queue is empty.
C18_EmptyFlushEnqueuesNothing ==
  /\ [](\A i \in 1..Len(qh.handed) : qh.handed[i] # <<>>)
  /\ [][EmptyFlushAddsNothing]_vars

\* The hard-flush timer has run on an empty buffer and addHeartRateBatchJob
\* has just been called with an empty list; nothing was handed to the queue.
C18_Witness ==
  /\ qh.last.op = "addEmpty"
  /\ qs.now = BATCH_FLUSH_INTERVAL
  /\ qs.flushTimerDue > qs.now
  /\ qh.handed = <<>>
  /\ qs.heartRateBatch = <<>>

\* The addHeartRateJob calls that have not returned yet: those that flushed
\* and await the answer of heartRateQueue.add.
AwaitingAdd == {i \in 1..Len(qs.adds) : qs.adds[i].caller = "submit"}

BadBatchSizeChangesNothing ==
  (qh'.last.op = "update"
     /\ (qh'.last.arg < 1 \/ qh'.last.arg > MAX_BATCH_SIZE))
    => /\ qh'.last.threw
       /\ qs' = qs
       /\ qh'.handed = qh.handed

\* C20: updateBatchSize(newSize) with newSize < 1 or newSize > 1000 fails
\* with a range error and changes nothing: batchSize, the buffer and the
\* pending idle timer stay as they were and no flush happens.
C20_BadBatchSizeRejected ==
  [][BadBatchSizeChangesNothing]_vars

\* updateBatchSize(0) has just thrown on a service with threshold 2, one
\* buffered reading and a pending idle timer.
C20_Witness ==
  /\ qh.last.op = "update"
  /\ qh.last.arg = 0
  /\ qh.last.threw
  /\ qs.batchSize = 2
  /\ Len(qs.heartRateBatch) = 1
  /\ qs.idleArmed

\* A successful updateBatchSize sets the threshold; a buffer for which
\* reached(length, newSize) holds is handed over whole as one batch, any
\* other buffer stays as it was and nothing is handed over.
UpdateFlushesWhen(reached(_, _)) ==
  (qh'.last.op = "update" /\ ~qh'.last.threw) =>
    /\ qs'.batchSize = qh'.last.arg
    /\ IF reached(Len(qs.heartRateBatch), qh'.last.arg)
       THEN /\ qh'.handed = Append(qh.handed, qs.heartRateBatch)
            /\ qs'.heartRateBatch = <<>>
       ELSE /\ qh'.handed = qh.handed
            /\ qs'.heartRateBatch = qs.heartRateBatch

\* C21 as stated: the buffer is flushed when it exceeds the new threshold
\* and is left as it was otherwise.
C21_UpdateFlushesBufferAboveThreshold ==
  [][UpdateFlushesWhen(LAMBDA n, size : n > size)]_vars

\* C21, amended: after a successful updateBatchSize(newSize) a buffer that
\* has reached the new threshold (length >= newSize) is flushed at once as
\* one batch; a shorter buffer is left as it was.
C21_UpdateFlushesBufferAtThreshold ==
  [][UpdateFlushesWhen(LAMBDA n, size : n >= size)]_vars

\* updateBatchSize(1) has just flushed a buffer of two readings.
C21_Witness ==
  /\ qh.last.op = "update"
  /\ qh.last.arg = 1
  /\ qs.adds # <<>>
  /\ qs.adds[Len(qs.adds)].caller = "update"
  /\ Len(qs.adds[Len(qs.adds)].readings) = 2
  /\ qs.heartRateBatch = <<>>

\* C22: every batch given to heartRateQueue.add gets a jobId that no batch
\* before it got, also when two flushes fall into one millisecond.
C22_JobIdsAreUnique ==
  [][Len(qh'.handed) > Len(qh.handed) => ~qh.idTaken]_vars

\* C24: a job that has failed its last attempt stays in the failed list
\* until an operation of the service takes it out.
C24_ExhaustedJobsStayFailed ==
  \A id \in bull.exhausted \ bull.takenOut :
    \E i \in 1..Len(bull.failed) : bull.failed[i].id = id

\* The partition the statistics of job slot f.w are about is the one whose
\* cache operation failed, in the attempt in which it failed.
StatsAreOf(f) ==
  /\ stats[f.w].active
  /\ stats[f.w].readings = f.readings
  /\ AttemptsMade(faults, f.data) = f.attempt

\* C25: when a cache read or write of a partition fails, no aggregate row
\* is written for that partition and the attempt ends in error.
C25_CacheFailureFailsTheJob ==
  \A f \in faults.cacheFailed :
    /\ StatsAreOf(f) => stats[f.w].upserts = 0
    /\ \/ wk[f.w].pc # "idle" /\ wk[f.w].data = f.data
       \/ AttemptsMade(faults, f.data) > f.attempt

\* C26: when the processing of one partition of a batch fails, the attempt
\* ends in error with every other partition of the batch processed: none
\* is left unstarted.
C26_FailedPartitionBlocksNoOther ==
  \A i \in 1..Len(faults.thrown) : faults.thrown[i].skipped = 0

\* 23:59:59.999 of the day after day d (UTC).
EndOfNextDay(d) == (d + 2) * DayMs - 1

\* C27: an entry written for day d, whenever it is written, is present at
\* every time before the end of day d + 1.
C27_EntryLivesThroughNextDay ==
  \A d \in ttl.written :
    ttl.now < EndOfNextDay(d) => ttl.expireAt[d] # NoExpire

\* The step is a cache write of job slot w.
WritesCache(w) == stats'[w].cacheWrites > stats[w].cacheWrites

\* The entry the cache write at the head of job slot w's plan was computed
\* for, against the entry the job slot had read.
ImprovesOnlyMax(w) ==
  /\ stats[w].cur # NoEntry
  /\ Head(wk[w].ops)[2].max > stats[w].cur.max
  /\ Head(wk[w].ops)[2].min >= stats[w].cur.min

ImprovesOnlyMin(w) ==
  /\ stats[w].cur # NoEntry
  /\ Head(wk[w].ops)[2].min < stats[w].cur.min
  /\ Head(wk[w].ops)[2].max <= stats[w].cur.max

\* C28: a cache write of a reconciliation that improves only the max leaves
\* the stored min and minTime as they are when it is made, and a write that
\* improves only the min leaves the stored max and maxTime.
C28_CacheWritesAreFieldIndependent ==
  [][\A w \in Workers :
       WritesCache(w) =>
         LET k == stats[w].key
         IN /\ ImprovesOnlyMax(w) =>
                 /\ cache'[k].min = cache[k].min
                 /\ cache'[k].minTime = cache[k].minTime
            /\ ImprovesOnlyMin(w) =>
                 /\ cache'[k].max = cache[k].max
                 /\ cache'[k].maxTime = cache[k].maxTime]_vars

\* The timestamp of the first reading of the group with this heart rate.
FirstTimeOf(readings, bpm) ==
  readings[CHOOSE i \in 1..Len(readings) :
             /\ readings[i].bpm = bpm
             /\ \A j \in 1..(i - 1) : readings[j].bpm # bpm].timestamp

\* Job slot w is past the scan of a batch partition.
HasLocalExtrema(w) ==
  /\ wk[w].kind = "batch"
  /\ wk[w].pc \in {"cache", "select", "write"}

\* C29: the local min and max of a partition are the smallest and the
\* largest bpm of its readings, each with the timestamp of the first
\* reading of the partition, in batch order, that has that bpm.
C29_LocalExtremaKeepFirstOnTies ==
  \A w \in Workers :
    HasLocalExtrema(w) =>
      LET group == Head(wk[w].groups)
          local == wk[w].upsert
      IN /\ local.min = SmallestBpm(SetOf(group))
         /\ local.max = LargestBpm(SetOf(group))
         /\ local.minTime = FirstTimeOf(group, local.min)
         /\ local.maxTime = FirstTimeOf(group, local.max)

C29_Witness ==
  \E w \in Workers :
    /\ HasLocalExtrema(w)
    /\ Len(Head(wk[w].groups)) = 2
    /\ Head(wk[w].groups)[1].bpm = Head(wk[w].groups)[2].bpm

\* C30: when the heartRateQueue.add an addHeartRateJob call is waiting for
\* fails, the call rejects.
C30_FailedAddRejectsTheSubmit ==
  [][(qh'.last.op = "addFails" /\ qs.adds # <<>> /\ qs'.adds = Tail(qs.adds)
        /\ Head(qs.adds).caller = "submit")
       => qh'.rejected = qh.rejected + 1]_vars

\* What processHeartRateReading is to upsert for a reading that improves on
\* the entry cur: the improved end from the reading, the other end from cur.
MergedWith(cur, r) ==
  [min |-> IF r.bpm < cur.min THEN r.bpm ELSE cur.min,
   minTime |-> IF r.bpm < cur.min THEN r.timestamp ELSE cur.minTime,
   max |-> IF r.bpm > cur.max THEN r.bpm ELSE cur.max,
   maxTime |-> IF r.bpm > cur.max THEN r.timestamp ELSE cur.maxTime]

\* C31: a reading processed by processHeartRateReading against an existing
\* cache entry is upserted, when it is strictly below the cached min or
\* strictly above the cached max, as the new end with its timestamp and the
\* other end as cached; when it is neither, no upsert is made.
C31_ReadingUpsertsMergedEntry ==
  \A w \in Workers :
    LET s == stats[w]
        r == s.readings[1]
    IN (s.active /\ s.read /\ s.kind = "single" /\ s.cur # NoEntry) =>
         IF r.bpm < s.cur.min \/ r.bpm > s.cur.max
         THEN /\ s.upserts <= 1
              /\ s.finished =>
                   /\ s.upserts = 1
                   /\ RowsOf(aggregates, s.key) # <<>>
                   /\ \A i \in 1..Len(RowsOf(aggregates, s.key)) :
                        RowsOf(aggregates, s.key)[i] = AggregateRow(s.key, MergedWith(s.cur, r))
         ELSE /\ s.upserts = 0
              /\ s.finished
              /\ RowsOf(aggregates, s.key) = s.rowsBefore

\* A reading below the cached min has been processed to its end against an
\* entry whose max came from another reading.
C31_Witness ==
  \E w \in Workers :
    LET s == stats[w]
    IN /\ s.active /\ s.read /\ s.kind = "single" /\ s.finished
       /\ s.cur # NoEntry
       /\ s.readings[1].bpm < s.cur.min
       /\ s.cur.max > s.cur.min

\* The cache and the rows of heart_rate_aggregates after the partition
\* group of a batch has gone through updateDailyMinMaxCacheForBatch, from
\* the cache c and the rows a, with nothing else running.
ProcessGroup(st, group) ==
  LET k == KeyOf(group[1])
      plan == ReconcileBatch(GetDailyMinMax(st.cache, k), group)
  IN [cache |-> IF plan.ops # <<>> THEN SetDailyMinMax(st.cache, k, plan.ops[1][2])
                ELSE st.cache,
      aggregates |-> IF Len(RowsOf(st.aggregates, k)) > 0
                     THEN UpdateRows(st.aggregates, k, plan.upsert)
                     ELSE InsertRow(st.aggregates, k, plan.upsert)]

\* A batch of two partitions about to be processed would leave the same
\* cache and the same rows for every (patientId, date) with its partitions
\* taken in the other order.
PartitionOrderIsImmaterial ==
  \A w \in Workers :
    (wk[w].kind = "batch" /\ wk[w].pc = "insert" /\ Len(wk[w].groups) = 2) =>
      LET st == [cache |-> cache, aggregates |-> aggregates]
          g1 == wk[w].groups[1]
          g2 == wk[w].groups[2]
          fwd == ProcessGroup(ProcessGroup(st, g1), g2)
          bwd == ProcessGroup(ProcessGroup(st, g2), g1)
      IN /\ fwd.cache = bwd.cache
         /\ \A k \in Keys : RowsOf(fwd.aggregates, k) = RowsOf(bwd.aggregates, k)

\* The (patientId, date) of the partition job slot w is working on.
PartitionKey(w) == KeyOf(Head(wk[w].groups)[1])

\* A step of a batch processor changes the cache entry and the rows of no
\* (patientId, date) but that of the partition it is working on.
PartitionTouchesOwnKeyOnly ==
  \A w \in Workers :
    (wk[w].kind = "batch" /\ wk[w].pc \notin {"idle"} /\ wk'[w] # wk[w]) =>
      \A k \in Keys \ {PartitionKey(w)} :
        /\ cache'[k] = cache[k]
        /\ RowsOf(aggregates', k) = RowsOf(aggregates, k)

\* C32: processing the partition of a (patientId, date) changes only the
\* cache entry and the Aggregate Row of that (patientId, date), so the
\* partitions of a batch leave the same cache and Aggregate Store in either
\* order.
C32_PartitionsTouchDisjointState ==
  []PartitionOrderIsImmaterial /\ [][PartitionTouchesOwnKeyOnly]_vars

\* The second partition of a batch has updated the row of its day while the
\* other day has a cache entry and a row.
C32_Witness ==
  \E w \in Workers :
    LET s == stats[w]
    IN /\ s.active /\ s.kind = "batch" /\ s.finished /\ s.upserts = 1
       /\ s.rowsBefore # <<>>
       /\ \E k \in Keys \ {s.key} : cache[k] # NoEntry /\ RowsOf(aggregates, k) # <<>>
       /\ \E job \in startedJobs :
            /\ job.kind = "batch"
            /\ Len(Partition(job.data)) = 2
            /\ s.readings = Partition(job.data)[2]

\* The number of the partition of the batch data that holds reading r.
PartitionOf(data, r) ==
  CHOOSE p \in 1..Len(Partition(data)) : r \in SetOf(Partition(data)[p])

\* The attempts on jobs holding reading r that ended in error after the
\* bulk insert of r's partition.
FailedAfterInsertOf(r) ==
  {i \in 1..Len(faults.thrown) :
     /\ r \in SetOf(faults.thrown[i].data)
     /\ PartitionOf(faults.thrown[i].data, r) <= faults.thrown[i].inserted}

\* The attempts in progress on jobs holding reading r that have made the
\* bulk insert of r's partition.
RunningAfterInsertOf(r) ==
  {w \in Workers :
     /\ wk[w].pc # "idle"
     /\ r \in SetOf(wk[w].data)
     /\ LET at == Len(Partition(wk[w].data)) - Len(wk[w].groups) + 1
            p == PartitionOf(wk[w].data, r)
        IN p < at \/ (p = at /\ wk[w].pc # "insert")}

\* The jobs holding reading r whose processor has returned.
ReturnedWith(r) ==
  {job \in startedJobs :
     /\ r \in SetOf(job.data)
     /\ ~InProgress(job)
     /\ \A i \in 1..Len(queue) : queue[i].data # job.data
     /\ AttemptsMade(faults, job.data) < Attempts}

\* C33: heart_rate_records holds a reading once for every attempt that made
\* the bulk insert of its partition, the attempts that failed afterwards
\* included: the retry of a job inserts the partition again.
C33_RetryInsertsAgain ==
  \A job \in startedJobs :
    \A r \in SetOf(job.data) :
      CopiesIn(r, records) =
        Cardinality(FailedAfterInsertOf(r)) + Cardinality(RunningAfterInsertOf(r))
          + Cardinality(ReturnedWith(r))

\* A job that failed after its bulk insert has been retried to its end, and
\* its reading is stored twice.
C33_Witness ==
  \E job \in startedJobs :
    \E r \in SetOf(job.data) :
      /\ FailedAfterInsertOf(r) # {}
      /\ ReturnedWith(r) # {}
      /\ CopiesIn(r, records) = 2

\* C34: a write of the Aggregate Row by a batch processor never raises its
\* bpmMin and never lowers its bpmMax.
C34_BatchWritesOnlyWidenTheRow ==
  [][\A w \in Workers :
       (wk[w].kind = "batch" /\ wk[w].pc = "write" /\ wk'[w] # wk[w]) =>
         LET before == RowsOf(aggregates, PartitionKey(w))
             after == RowsOf(aggregates', PartitionKey(w))
         IN \A i \in 1..Len(before) :
              /\ after[i].bpmMin <= before[i].bpmMin
              /\ after[i].bpmMax >= before[i].bpmMax]_vars

\* C35: a batch processed after the cache entry of its (patientId, date)
\* has expired leaves every Aggregate Row of that (patientId, date) with a
\* bpmMin not larger and a bpmMax not smaller than before the expiry.
C35_ExpiryDoesNotWorsenTheRow ==
  [][\A w \in Workers :
       (/\ wk[w].kind = "batch" /\ wk[w].pc = "write" /\ wk'[w] # wk[w]
        /\ stats[w].cur = NoEntry) =>
         \A e \in SetOf(ttl.atExpiry) :
           (e.key = PartitionKey(w) /\ e.rows # <<>>) =>
             \A i \in 1..Len(RowsOf(aggregates', e.key)) :
               /\ RowsOf(aggregates', e.key)[i].bpmMin <= e.rows[1].bpmMin
               /\ RowsOf(aggregates', e.key)[i].bpmMax >= e.rows[1].bpmMax]_vars

\* The hash of a key holds all four fields.
HoldsAllFields(entry) ==
  /\ entry.min # NoVal /\ entry.minTime # NoVal
  /\ entry.max # NoVal /\ entry.maxTime # NoVal

\* C39: a cache key is absent or holds min, max, minTime and maxTime, also
\* when the entry expired between a processor's read and its write.
C39_CacheKeyAbsentOrComplete ==
  \A k \in Keys : cache[k] = NoEntry \/ HoldsAllFields(cache[k])

\* C36: once the per-reading batch processor has settled every batch, the
\* cache entry and the Aggregate Row of each (patientId, date) are those
\* that processing the readings one after another leaves, in whatever
\* order: the smallest and the largest bpm of its readings, each with the
\* timestamp of a reading that carries it, in one row.
C36_ConcurrentEqualsSequential ==
  AllDone =>
    \A k \in Keys :
      StartedReadings(k) # {} =>
        /\ IsExtremaOf(cache[k], StartedReadings(k))
        /\ Len(RowsOf(aggregates, k)) = 1
        /\ IsExtremaOf(RowEntry(RowsOf(aggregates, k)[1]), StartedReadings(k))

\* C37: between the calls of addHeartRateJob and updateBatchSize, each taken
\* up to its first await, the buffer holds fewer than batchSize readings.
C37_BufferStaysBelowThreshold ==
  Len(qs.heartRateBatch) < qs.batchSize

\* After a flush at the threshold the buffer is one reading short of it.
C37_Witness ==
  /\ qs.batchSize = 2
  /\ Len(qs.heartRateBatch) = 1
  /\ Len(qh.handed) = 1
  /\ Len(qh.handed[1]) = 2

\* The step hands a batch to heartRateQueue.add.
HandsOver == Len(qh'.handed) > Len(qh.handed)

\* C38: every batch handed to the queue is non-empty and holds at most
\* MAX_BATCH_SIZE readings; it holds more than the threshold now in force
\* only when updateBatchSize has just lowered it.
C38_BatchesWithinCeiling ==
  [][HandsOver =>
       LET batch == qh'.handed[Len(qh'.handed)]
       IN /\ batch # <<>>
          /\ Len(batch) <= MAX_BATCH_SIZE
          /\ Len(batch) > qs'.batchSize =>
               (qh'.last.op = "update" /\ qs'.batchSize < qs.batchSize)]_vars

\* A batch of MAX_BATCH_SIZE readings has been handed over.
C38_Witness ==
  \E i \in 1..Len(qh.handed) : Len(qh.handed[i]) = MAX_BATCH_SIZE

====
